---- MODULE Spec2Model ----
(***************************************************************************)
(* Model of the evaluation scripts of surgical-instrument-action-detection *)
(*                                                                         *)
(*   evaluate_HeiChole.py          ModelLoader, HierarchicalEvaluator      *)
(*                                 .load_ground_truth, main                *)
(*   evaluate_features_CholeCT50.py  extract_and_visualize_features        *)
(*                                                                         *)
(* A JSON object is a function from its keys to its values, an object      *)
(* whose iteration order matters (frames) is a sequence of key/value       *)
(* records in file order, a frame key is the tuple of its characters.      *)
(***************************************************************************)
EXTENDS Integers, Sequences, FiniteSets, TLC

\* ------------------------------------------------------------------ bounds
MaxFrames == 2      \* frames of a document (rich documents)
MaxCalls == 2       \* load_ground_truth calls of one driver run
MaxLookups == 1     \* subscript reads of the returned index
MaxFiles == 3       \* .png files of the video directory
MaxDet == 2         \* boxes of one detection result

\* ------------------------------------------------------- input vocabularies
Videos == {"VID01", "VID02"}
InstrNames == {"grasper"}
ActionNames == {"cut"}
Values == {-1, 0, 1, 5}
\* "0", "12" and "abc": a frame number is unique per video, so no two keys of
\* one document are numerals of the same integer (no "1" next to "01")
FrameKeys == {<<"0">>, <<"1", "2">>, <<"a", "b", "c">>}
LookupFrames == {0, 5, 12}

\* ------------------------------------------------------------ int(frame_num)
Digits == <<"0", "1", "2", "3", "4", "5", "6", "7", "8", "9">>

IsDigit(c) == \E d \in 1..10 : Digits[d] = c

DigitVal(c) == (CHOOSE d \in 1..10 : Digits[d] = c) - 1

\* int(s) raises ValueError unless s is a numeral
ParseOK(key) == Len(key) > 0 /\ \A p \in 1..Len(key) : IsDigit(key[p])

RECURSIVE ParseAcc(_, _, _)
ParseAcc(key, p, acc) ==
    IF p > Len(key) THEN acc
    ELSE ParseAcc(key, p + 1, acc * 10 + DigitVal(key[p]))

ParseVal(key) == ParseAcc(key, 1, 0)

\* ------------------------------------------------- documents and file system
EmptyMap == <<>>

\* dict.get(key, {})
Get(obj, key) == IF key \in DOMAIN obj THEN obj[key] ELSE EmptyMap

SubMaps(names, values) == UNION {[S -> values] : S \in SUBSET names}

OptionalKey(key, maps) == {EmptyMap} \cup {(key :> m) : m \in maps}

FrameDatas(values) ==
    {i @@ a : i \in OptionalKey("instruments", SubMaps(InstrNames, values)),
              a \in OptionalKey("actions", SubMaps(ActionNames, values))}

DistinctKeys(fr) == \A i, j \in 1..Len(fr) : i # j => fr[i].key # fr[j].key

FramesOver(datas, maxlen) ==
    UNION {{fr \in [1..n -> [key : FrameKeys, data : datas]] : DistinctKeys(fr)}
           : n \in 0..maxlen}

MissingFile == [kind |-> "missing", has_frames |-> FALSE, frames |-> <<>>]

MalformedFile == [kind |-> "malformed", has_frames |-> FALSE, frames |-> <<>>]

JsonFile(fr) == [kind |-> "json", has_frames |-> TRUE, frames |-> fr]

NoFramesFile == [kind |-> "json", has_frames |-> FALSE, frames |-> <<>>]

RichFiles ==
    {MissingFile, MalformedFile, NoFramesFile}
        \cup {JsonFile(fr) : fr \in FramesOver(FrameDatas(Values), MaxFrames)}

SmallDatas ==
    {("instruments" :> ("grasper" :> 1)),
     ("instruments" :> EmptyMap) @@ ("actions" :> ("cut" :> 5))}

SmallFiles ==
    {MissingFile, MalformedFile}
        \cup {JsonFile(fr) : fr \in FramesOver(SmallDatas, MaxFrames)}

\* ------------------------------------------------ the defaultdict of frames
EmptyIndex == <<>>

\* lambda: {'instruments': defaultdict(int), 'verbs': defaultdict(int)}
DefaultEntry == [instruments |-> EmptyMap, verbs |-> EmptyMap]

\* frame_annotations[n]: a missing key is created by the default factory
AutoViv(index, n) ==
    IF n \in DOMAIN index THEN index ELSE (n :> DefaultEntry) @@ index

\* frame_annotations[n]['instruments'][name] = 1
SetInstrument(index, n, name) ==
    [AutoViv(index, n) EXCEPT ![n].instruments = (name :> 1) @@ @]

\* frame_annotations[n]['verbs'][name] = 1
SetVerb(index, n, name) ==
    [AutoViv(index, n) EXCEPT ![n].verbs = (name :> 1) @@ @]

\* the threshold taken as "present >= 0"
RECURSIVE InstrumentLoop_NonNegative(_, _, _, _)
InstrumentLoop_NonNegative(index, n, instruments, todo) ==
    IF todo = {} THEN index
    ELSE LET instr_name == CHOOSE x \in todo : TRUE
             present == instruments[instr_name]
         IN  InstrumentLoop_NonNegative(IF present >= 0
                                           THEN SetInstrument(index, n, instr_name)
                                           ELSE index,
                                        n, instruments, todo \ {instr_name})

RECURSIVE InstrumentLoop(_, _, _, _)
InstrumentLoop(index, n, instruments, todo) ==
    IF todo = {} THEN index
    ELSE LET instr_name == CHOOSE x \in todo : TRUE
             present == instruments[instr_name]
         IN  InstrumentLoop(IF present > 0
                               THEN SetInstrument(index, n, instr_name)
                               ELSE index,
                            n, instruments, todo \ {instr_name})

RECURSIVE ActionLoop(_, _, _, _)
ActionLoop(index, n, actions, todo) ==
    IF todo = {} THEN index
    ELSE LET action_name == CHOOSE x \in todo : TRUE
             present == actions[action_name]
         IN  ActionLoop(IF present > 0
                           THEN SetVerb(index, n, action_name)
                           ELSE index,
                        n, actions, todo \ {action_name})

HasPositive(m) == \E name \in DOMAIN m : m[name] > 0

Unbound == [bound |-> FALSE, index |-> EmptyIndex]

Bound(index) == [bound |-> TRUE, index |-> index]

NoOutcome == [done |-> FALSE, ok |-> FALSE, index |-> EmptyIndex, err |-> "none"]

VARIABLES
    fs,                 \* {dataset_root}/Labels/{video}.json, per video
    pc,                 \* load_ground_truth: "idle", "loop", "returned", "raised"
    video,              \* its argument
    opens,              \* open() calls made by the current call
    frames,             \* data.get('frames', {})
    idx,                \* position of the frame loop in frames.items()
    frame_annotations,  \* the local defaultdict
    processed_frames, frames_with_instruments, frames_with_actions,
    err,                \* exception that left load_ground_truth
    annotations,        \* the caller's reference to the returned index
    result,             \* snapshot of the index at the return statement
    first,              \* per video, outcome of its first finished call
    calls,              \* driver: calls made
    lookups,            \* driver: subscript reads made
    paths,              \* main: which of the three configured paths exist
    mainPc,             \* main: position
    yolo_model,         \* main: "none" or "loaded"
    verb_model,         \* main: "none" or "loaded"
    evaluator,          \* main: HierarchicalEvaluator constructed
    main_err,           \* main: exception caught by its except clause
    raised_in,          \* main: the callee that raised it
    sample_frame,       \* main: list(annotations.keys())[0]
    reads,              \* main: subscript reads of annotations
    listing,            \* features: os.listdir(video_path)
    frame_files,        \* features: sorted .png names
    frame_idx,          \* features: enumerate position (frames done)
    all_features, all_labels, frame_indices,
    detections,         \* features: per frame done, the classes of its boxes
    featPc,             \* features: "start", "loop", "done"
    ret                 \* features: "pending", "none", "arrays"

loadVars == <<pc, video, opens, frames, idx, frame_annotations,
              processed_frames, frames_with_instruments, frames_with_actions,
              err, annotations, result, first>>

evalVars == <<fs, loadVars, calls, lookups>>

mainVars == <<paths, mainPc, yolo_model, verb_model, evaluator, main_err,
              raised_in, sample_frame, reads>>

featVars == <<listing, frame_files, frame_idx, all_features, all_labels,
              frame_indices, detections, featPc, ret>>

vars == <<evalVars, mainVars, featVars>>

Outcome(ok, index, e) == [done |-> TRUE, ok |-> ok, index |-> index, err |-> e]

Record(v, o) == IF first[v].done THEN first ELSE [first EXCEPT ![v] = o]

\* the defaultdict kept on the evaluator instead of built per call
NewFrameAnnotations_Shared == frame_annotations

\* lines 127-130: the defaultdict is built anew by every call
NewFrameAnnotations == EmptyIndex

\* an except clause that returns what was built so far instead of re-raising
Raise_ReturnsPartial(v, e) ==
    /\ pc' = "returned"
    /\ err' = "none"
    /\ annotations' = Bound(frame_annotations')
    /\ result' = Bound(frame_annotations')
    /\ first' = Record(v, Outcome(TRUE, frame_annotations', "none"))

\* lines 192-194: the except clause prints and re-raises, nothing is returned
Raise(v, e) ==
    /\ pc' = "raised"
    /\ err' = e
    /\ annotations' = Unbound
    /\ result' = Unbound
    /\ first' = Record(v, Outcome(FALSE, EmptyIndex, e))

\* lines 121-147: open and parse the file, take frames, sample the first frame
BeginLoad(v) ==
    /\ pc # "loop"
    /\ video' = v
    /\ opens' = 1
    /\ frame_annotations' = NewFrameAnnotations
    /\ idx' = 1
    /\ processed_frames' = 0
    /\ frames_with_instruments' = 0
    /\ frames_with_actions' = 0
    /\ LET file == fs[v]
           data_frames == IF file.has_frames THEN file.frames ELSE <<>>
       IN  IF file.kind = "missing"
           THEN frames' = <<>> /\ Raise(v, "FileNotFoundError")
           ELSE IF file.kind = "malformed"
           THEN frames' = <<>> /\ Raise(v, "JSONDecodeError")
           ELSE IF Len(data_frames) = 0
           THEN frames' = data_frames /\ Raise(v, "IndexError")
           ELSE /\ frames' = data_frames
                /\ pc' = "loop"
                /\ err' = "none"
                /\ annotations' = Unbound
                /\ result' = Unbound
                /\ UNCHANGED first

\* a malformed key skipped instead of raised on
BadKey_Skip ==
    /\ idx' = idx + 1
    /\ UNCHANGED <<frame_annotations, processed_frames, frames_with_instruments,
                   frames_with_actions, pc, err, first, annotations, result>>

\* line 150: int(frame_num) raises ValueError, which leaves the call
BadKey ==
    /\ UNCHANGED <<idx, frame_annotations, processed_frames,
                   frames_with_instruments, frames_with_actions>>
    /\ Raise(video, "ValueError")

\* lines 149-175: one iteration of the frame loop
ProcessFrame ==
    /\ pc = "loop"
    /\ idx <= Len(frames)
    /\ LET frame_num == frames[idx].key
           frame_data == frames[idx].data
       IN  IF ~ParseOK(frame_num)
           THEN BadKey
           ELSE LET frame_number == ParseVal(frame_num)
                    instruments == Get(frame_data, "instruments")
                    actions == Get(frame_data, "actions")
                    afterInstr == InstrumentLoop(frame_annotations, frame_number,
                                                 instruments, DOMAIN instruments)
                IN  /\ frame_annotations' =
                           ActionLoop(afterInstr, frame_number, actions, DOMAIN actions)
                    /\ processed_frames' = processed_frames + 1
                    /\ frames_with_instruments' =
                           frames_with_instruments
                               + (IF HasPositive(instruments) THEN 1 ELSE 0)
                    /\ frames_with_actions' =
                           frames_with_actions
                               + (IF HasPositive(actions) THEN 1 ELSE 0)
                    /\ idx' = idx + 1
                    /\ UNCHANGED <<pc, err, first, annotations, result>>
    /\ UNCHANGED <<video, opens, frames>>

\* lines 177-190: statistics, sample of the existing keys, return
FinishLoad ==
    /\ pc = "loop"
    /\ idx > Len(frames)
    /\ pc' = "returned"
    /\ annotations' = Bound(frame_annotations)
    /\ result' = Bound(frame_annotations)
    /\ first' = Record(video, Outcome(TRUE, frame_annotations, "none"))
    /\ UNCHANGED <<video, opens, frames, idx, frame_annotations, processed_frames,
                   frames_with_instruments, frames_with_actions, err>>

\* annotations[n] on the returned defaultdict (the subscript of line 221)
Lookup(n) ==
    /\ pc = "returned"
    /\ annotations.bound
    /\ annotations' = [annotations EXCEPT !.index = AutoViv(@, n)]
    /\ UNCHANGED <<pc, video, opens, frames, idx, frame_annotations,
                   processed_frames, frames_with_instruments, frames_with_actions,
                   err, result, first>>

\* ------------------------------------------------- a driver of one evaluator
DriverLoad(v) ==
    /\ calls < MaxCalls
    /\ BeginLoad(v)
    /\ calls' = calls + 1
    /\ UNCHANGED <<fs, lookups, mainVars, featVars>>

DriverFrame == ProcessFrame /\ UNCHANGED <<fs, calls, lookups, mainVars, featVars>>

DriverFinish == FinishLoad /\ UNCHANGED <<fs, calls, lookups, mainVars, featVars>>

DriverLookup(n) ==
    /\ lookups < MaxLookups
    /\ Lookup(n)
    /\ lookups' = lookups + 1
    /\ UNCHANGED <<fs, calls, mainVars, featVars>>

InitLoad ==
    /\ pc = "idle"
    /\ video = "VID01"
    /\ opens = 0
    /\ frames = <<>>
    /\ idx = 1
    /\ frame_annotations = EmptyIndex
    /\ processed_frames = 0
    /\ frames_with_instruments = 0
    /\ frames_with_actions = 0
    /\ err = "none"
    /\ annotations = Unbound
    /\ result = Unbound
    /\ first = [v \in Videos |-> NoOutcome]
    /\ calls = 0
    /\ lookups = 0

AllPaths == [yolo |-> TRUE, verb |-> TRUE, dataset |-> TRUE]

\* main not running: the evaluator was built by a driver
NoMain ==
    /\ paths = AllPaths
    /\ mainPc = "off"
    /\ yolo_model = "loaded"
    /\ verb_model = "loaded"
    /\ evaluator = TRUE
    /\ main_err = "none"
    /\ raised_in = "none"
    /\ sample_frame = -1
    /\ reads = 0

NoFeatures ==
    /\ listing = {}
    /\ frame_files = <<>>
    /\ frame_idx = 0
    /\ all_features = <<>>
    /\ all_labels = <<>>
    /\ frame_indices = <<>>
    /\ detections = <<>>
    /\ featPc = "off"
    /\ ret = "pending"

\* one call on one annotation file, over every document of the vocabulary
InitOne ==
    /\ \E f \in RichFiles : fs = [v \in Videos |-> IF v = "VID01" THEN f ELSE MissingFile]
    /\ InitLoad
    /\ NoMain
    /\ NoFeatures

NextOne ==
    \/ calls = 0 /\ DriverLoad("VID01")
    \/ DriverFrame
    \/ DriverFinish

SpecOne == InitOne /\ [][NextOne]_vars

\* a sequence of calls and lookups over two videos
InitEval ==
    /\ fs \in [Videos -> SmallFiles]
    /\ InitLoad
    /\ NoMain
    /\ NoFeatures

NextEval ==
    \/ \E v \in Videos : DriverLoad(v)
    \/ DriverFrame
    \/ DriverFinish
    \/ \E n \in LookupFrames : DriverLookup(n)

SpecEval == InitEval /\ [][NextEval]_vars

\* ------------------------------------------------------------------- main()
Handled(e, where) ==
    /\ mainPc' = "handled"
    /\ main_err' = e
    /\ raised_in' = where

\* setup_paths without its three existence checks
MainSetupPaths_NoValidation ==
    /\ mainPc = "start"
    /\ mainPc' = "load_yolo"
    /\ UNCHANGED <<main_err, raised_in, paths, yolo_model, verb_model, evaluator,
                   sample_frame, reads, evalVars, featVars>>

\* lines 52-77, 199: ModelLoader() validates the three paths in order
MainSetupPaths ==
    /\ mainPc = "start"
    /\ IF ~paths.yolo \/ ~paths.verb \/ ~paths.dataset
       THEN Handled("FileNotFoundError", "setup_paths")
       ELSE mainPc' = "load_yolo" /\ UNCHANGED <<main_err, raised_in>>
    /\ UNCHANGED <<paths, yolo_model, verb_model, evaluator, sample_frame, reads,
                   evalVars, featVars>>

\* lines 79-86, 202: YOLO(weights) either loads or raises
MainLoadYolo ==
    /\ mainPc = "load_yolo"
    /\ \E loads \in BOOLEAN :
          IF loads /\ paths.yolo
          THEN /\ yolo_model' = "loaded"
               /\ mainPc' = "load_verb"
               /\ UNCHANGED <<main_err, raised_in>>
          ELSE /\ Handled("Exception", "load_yolo_model")
               /\ UNCHANGED yolo_model
    /\ UNCHANGED <<paths, verb_model, evaluator, sample_frame, reads,
                   evalVars, featVars>>

\* lines 88-98, 203: load_from_checkpoint either loads or raises
MainLoadVerb ==
    /\ mainPc = "load_verb"
    /\ \E loads \in BOOLEAN :
          IF loads /\ paths.verb
          THEN /\ verb_model' = "loaded"
               /\ mainPc' = "evaluator"
               /\ UNCHANGED <<main_err, raised_in>>
          ELSE /\ Handled("Exception", "load_verb_model")
               /\ UNCHANGED verb_model
    /\ UNCHANGED <<paths, yolo_model, evaluator, sample_frame, reads,
                   evalVars, featVars>>

\* lines 101-112, 206-210
MainCreateEvaluator ==
    /\ mainPc = "evaluator"
    /\ evaluator' = TRUE
    /\ mainPc' = "ground_truth"
    /\ UNCHANGED <<paths, yolo_model, verb_model, main_err, raised_in,
                   sample_frame, reads, evalVars, featVars>>

\* lines 213-215: the call of load_ground_truth("VID01")
MainLoadGroundTruth ==
    /\ mainPc = "ground_truth"
    /\ BeginLoad("VID01")
    /\ IF pc' = "raised"
       THEN Handled(err', "load_ground_truth")
       ELSE mainPc' = "loading" /\ UNCHANGED <<main_err, raised_in>>
    /\ UNCHANGED <<paths, yolo_model, verb_model, evaluator, sample_frame, reads,
                   fs, calls, lookups, featVars>>

MainFrame ==
    /\ mainPc = "loading"
    /\ ProcessFrame
    /\ IF pc' = "raised"
       THEN Handled(err', "load_ground_truth")
       ELSE UNCHANGED <<mainPc, main_err, raised_in>>
    /\ UNCHANGED <<paths, yolo_model, verb_model, evaluator, sample_frame, reads,
                   fs, calls, lookups, featVars>>

MainFinish ==
    /\ mainPc = "loading"
    /\ FinishLoad
    /\ mainPc' = "sample"
    /\ UNCHANGED <<paths, yolo_model, verb_model, evaluator, main_err, raised_in,
                   sample_frame, reads, fs, calls, lookups, featVars>>

HasEntry(frame) ==
    \/ HasPositive(Get(frame.data, "instruments"))
    \/ HasPositive(Get(frame.data, "actions"))

\* the key the dict received first
FirstKey(fr) ==
    LET i == CHOOSE i \in 1..Len(fr) :
                 HasEntry(fr[i]) /\ \A j \in 1..(i - 1) : ~HasEntry(fr[j])
    IN  ParseVal(fr[i].key)

\* lines 218-222: list(annotations.keys())[0], then two subscript reads
MainReadSample ==
    /\ mainPc = "sample"
    /\ IF DOMAIN annotations.index = {}
       THEN /\ Handled("IndexError", "main")
            /\ UNCHANGED <<sample_frame, reads, loadVars>>
       ELSE /\ sample_frame' = FirstKey(frames)
            /\ Lookup(sample_frame')
            /\ reads' = reads + 2
            /\ mainPc' = "done"
            /\ UNCHANGED <<main_err, raised_in>>
    /\ UNCHANGED <<paths, yolo_model, verb_model, evaluator,
                   fs, calls, lookups, featVars>>

MainDatas == SmallDatas \cup {("instruments" :> ("grasper" :> 0))}

MainFiles ==
    {MissingFile, MalformedFile}
        \cup {JsonFile(fr) : fr \in FramesOver(MainDatas, MaxFrames)}

InitMain ==
    /\ paths \in [yolo : BOOLEAN, verb : BOOLEAN, dataset : BOOLEAN]
    /\ \E f \in MainFiles :
          fs = [v \in Videos |->
                   IF v = "VID01" /\ paths.dataset THEN f ELSE MissingFile]
    /\ InitLoad
    /\ mainPc = "start"
    /\ yolo_model = "none"
    /\ verb_model = "none"
    /\ evaluator = FALSE
    /\ main_err = "none"
    /\ raised_in = "none"
    /\ sample_frame = -1
    /\ reads = 0
    /\ NoFeatures

NextMain ==
    \/ MainSetupPaths
    \/ MainLoadYolo
    \/ MainLoadVerb
    \/ MainCreateEvaluator
    \/ MainLoadGroundTruth
    \/ MainFrame
    \/ MainFinish
    \/ MainReadSample

SpecMain == InitMain /\ [][NextMain]_vars

\* ------------------------------------------ extract_and_visualize_features
Stems == 0..(MaxFiles - 1)

\* a directory entry: a frame image NNN.png or another file
DirEntries == [stem : Stems, ext : {"png"}] \cup {[stem |-> 0, ext |-> "txt"]}

ClassNames == <<"Grasper", "Hook">>

Lower(name) ==
    CASE name = "Grasper" -> "grasper"
      [] name = "Hook" -> "hook"
      [] OTHER -> name

\* the classes of the boxes of one result
DetectionResults == UNION {[1..k -> 0..(Len(ClassNames) - 1)] : k \in 0..MaxDet}

RECURSIVE SortedStems(_)
SortedStems(S) ==
    IF S = {} THEN <<>>
    ELSE LET m == CHOOSE x \in S : \A y \in S : x <= y
         IN  <<m>> \o SortedStems(S \ {m})

\* line 71: sorted([f for f in os.listdir(video_path) if f.endswith('.png')])
FrameFiles(entries) == SortedStems({e.stem : e \in {x \in entries : x.ext = "png"}})

RECURSIVE Repeat(_, _)
Repeat(x, k) == IF k = 0 THEN <<>> ELSE <<x>> \o Repeat(x, k - 1)

\* lines 92-95
FrameLabels(boxes) == [b \in 1..Len(boxes) |-> Lower(ClassNames[boxes[b] + 1])]

\* lines 65-71
FeatStart ==
    /\ featPc = "start"
    /\ all_features' = <<>>
    /\ all_labels' = <<>>
    /\ frame_indices' = <<>>
    /\ frame_files' = FrameFiles(listing)
    /\ frame_idx' = 0
    /\ featPc' = "loop"
    /\ UNCHANGED <<listing, detections, ret, evalVars, mainVars>>

\* the feature vector appended once per frame instead of once per box
FeatFrame_OncePerFrame(boxes) ==
    /\ featPc = "loop"
    /\ frame_idx < Len(frame_files)
    /\ LET frame_file == frame_files[frame_idx + 1]
           features_np == [frame |-> frame_file]
           frame_labels == FrameLabels(boxes)
       IN  IF Len(boxes) > 0
           THEN /\ all_features' = Append(all_features, features_np)
                /\ frame_indices' = Append(frame_indices, frame_idx)
                /\ all_labels' = all_labels \o frame_labels
           ELSE UNCHANGED <<all_features, frame_indices, all_labels>>
    /\ detections' = Append(detections, boxes)
    /\ frame_idx' = frame_idx + 1
    /\ UNCHANGED <<listing, frame_files, featPc, ret, evalVars, mainVars>>

\* lines 73-102: one iteration of the frame loop on the detector's result
FeatFrame(boxes) ==
    /\ featPc = "loop"
    /\ frame_idx < Len(frame_files)
    /\ LET frame_file == frame_files[frame_idx + 1]
           features_np == [frame |-> frame_file]
           frame_labels == FrameLabels(boxes)
       IN  IF Len(boxes) > 0
           THEN /\ all_features' = all_features \o Repeat(features_np, Len(frame_labels))
                /\ frame_indices' = frame_indices \o Repeat(frame_idx, Len(frame_labels))
                /\ all_labels' = all_labels \o frame_labels
           ELSE UNCHANGED <<all_features, frame_indices, all_labels>>
    /\ detections' = Append(detections, boxes)
    /\ frame_idx' = frame_idx + 1
    /\ UNCHANGED <<listing, frame_files, featPc, ret, evalVars, mainVars>>

\* lines 104-128
FeatReturn ==
    /\ featPc = "loop"
    /\ frame_idx = Len(frame_files)
    /\ ret' = IF all_features = <<>> THEN "none" ELSE "arrays"
    /\ featPc' = "done"
    /\ UNCHANGED <<listing, frame_files, frame_idx, all_features, all_labels,
                   frame_indices, detections, evalVars, mainVars>>

InitFeat ==
    /\ listing \in SUBSET DirEntries
    /\ frame_files = <<>>
    /\ frame_idx = 0
    /\ all_features = <<>>
    /\ all_labels = <<>>
    /\ frame_indices = <<>>
    /\ detections = <<>>
    /\ featPc = "start"
    /\ ret = "pending"
    /\ fs = [v \in Videos |-> MissingFile]
    /\ InitLoad
    /\ NoMain

NextFeat ==
    \/ FeatStart
    \/ \E boxes \in DetectionResults : FeatFrame(boxes)
    \/ FeatReturn

SpecFeat == InitFeat /\ [][NextFeat]_vars

\* ================================================================== claims
\* The document of the current call and what it says, stated on the file
\* alone (none of the loops above is used below).
Doc == fs[video].frames

IsJson(file) == file.kind = "json" /\ file.has_frames

FrameNumber(frame) == ParseVal(frame.key)

PositiveNames(m) == {name \in DOMAIN m : m[name] > 0}

AllNames == InstrNames \cup ActionNames

Finished == pc \in {"returned", "raised"}

InInstruments(index, n, name) ==
    n \in DOMAIN index /\ name \in DOMAIN index[n].instruments

InVerbs(index, n, name) ==
    n \in DOMAIN index /\ name \in DOMAIN index[n].verbs

\* C1: when a build returns, the keys of the index are exactly the integers
\* the frame keys of the document parse to.
C1_KeysAreDocumentKeys ==
    pc = "returned" =>
        DOMAIN result.index = {FrameNumber(Doc[i]) : i \in 1..Len(Doc)}

\* C2: when a build returns, for every frame of the document and every name,
\* the name is in the frame's instrument set iff the instruments sub-map gives
\* it a value > 0, and in its verb set iff the actions sub-map gives it a value
\* > 0; what is stored for a present name is 1 whatever the positive value.
C2_PresenceIffPositive ==
    pc = "returned" =>
        \A i \in 1..Len(Doc) : \A name \in AllNames :
            LET n == FrameNumber(Doc[i])
                instruments == Get(Doc[i].data, "instruments")
                actions == Get(Doc[i].data, "actions")
            IN  /\ InInstruments(result.index, n, name)
                       <=> name \in PositiveNames(instruments)
                /\ InVerbs(result.index, n, name)
                       <=> name \in PositiveNames(actions)
                /\ InInstruments(result.index, n, name)
                       => result.index[n].instruments[name] = 1
                /\ InVerbs(result.index, n, name)
                       => result.index[n].verbs[name] = 1

\* a returned index in which a value 5 gave presence and a value <= 0 gave none
C2_Witness ==
    /\ pc = "returned"
    /\ \E i \in 1..Len(Doc) :
          /\ "grasper" \in DOMAIN Get(Doc[i].data, "instruments")
          /\ Get(Doc[i].data, "instruments")["grasper"] = 5
          /\ InInstruments(result.index, FrameNumber(Doc[i]), "grasper")
    /\ \E i \in 1..Len(Doc) :
          /\ "cut" \in DOMAIN Get(Doc[i].data, "actions")
          /\ Get(Doc[i].data, "actions")["cut"] = -1
          /\ ~InVerbs(result.index, FrameNumber(Doc[i]), "cut")

\* C3: when a build returns, every frame of the document with no positive
\* instrument and no positive action has an entry whose two sets are empty.
C3_EmptyFrameHasEmptyEntry ==
    pc = "returned" =>
        \A i \in 1..Len(Doc) :
            ~HasEntry(Doc[i]) =>
                /\ FrameNumber(Doc[i]) \in DOMAIN result.index
                /\ DOMAIN result.index[FrameNumber(Doc[i])].instruments = {}
                /\ DOMAIN result.index[FrameNumber(Doc[i])].verbs = {}

\* C4: after any lookups the caller's index is the index as it was returned.
C4_ReadOnlyAfterReturn == pc = "returned" => annotations = result

HasMalformedKey(file) ==
    IsJson(file) /\ \E i \in 1..Len(file.frames) : ~ParseOK(file.frames[i].key)

\* C5: a call on a document with a frame key that is no integer never returns
\* and never hands an index to the caller: its loop cannot run to the end, and
\* when it has finished it has raised ValueError.
C5_MalformedKeyNoIndex ==
    (calls > 0 /\ HasMalformedKey(fs[video])) =>
        /\ pc # "returned"
        /\ ~annotations.bound
        /\ ~result.bound
        /\ pc = "loop" => idx <= Len(frames)
        /\ pc = "raised" => err = "ValueError"

\* the malformed key met after a frame that had put an entry in the local index
C5_Witness ==
    /\ pc = "raised"
    /\ err = "ValueError"
    /\ idx = 2
    /\ DOMAIN frame_annotations # {}
    /\ ~annotations.bound

\* C6: a call on a missing or malformed file has raised the matching error,
\* returned nothing, and opened the file once.
C6_UnreadableFileRaises ==
    (calls > 0 /\ fs[video].kind \in {"missing", "malformed"}) =>
        /\ pc = "raised"
        /\ err = (IF fs[video].kind = "missing" THEN "FileNotFoundError"
                                                ELSE "JSONDecodeError")
        /\ ~annotations.bound
        /\ ~result.bound
        /\ opens = 1

\* a malformed file met by a call that followed a successful one
C6_Witness ==
    /\ pc = "raised"
    /\ err = "JSONDecodeError"
    /\ calls = 2
    /\ \E v \in Videos : first[v].done /\ first[v].ok

FramesOf(fr, n) == {i \in 1..Len(fr) : FrameNumber(fr[i]) = n}

\* what a document alone determines
ExpectedIndex(fr) ==
    [n \in {FrameNumber(fr[i]) : i \in {j \in 1..Len(fr) : HasEntry(fr[j])}} |->
        [instruments |->
            [x \in UNION {PositiveNames(Get(fr[i].data, "instruments"))
                            : i \in FramesOf(fr, n)} |-> 1],
         verbs |->
            [x \in UNION {PositiveNames(Get(fr[i].data, "actions"))
                            : i \in FramesOf(fr, n)} |-> 1]]]

ExpectedOutcome(file) ==
    IF file.kind = "missing" THEN Outcome(FALSE, EmptyIndex, "FileNotFoundError")
    ELSE IF file.kind = "malformed" THEN Outcome(FALSE, EmptyIndex, "JSONDecodeError")
    ELSE IF ~file.has_frames \/ Len(file.frames) = 0
         THEN Outcome(FALSE, EmptyIndex, "IndexError")
    ELSE IF HasMalformedKey(file) THEN Outcome(FALSE, EmptyIndex, "ValueError")
    ELSE Outcome(TRUE, ExpectedIndex(file.frames), "none")

CurrentOutcome == Outcome(pc = "returned", result.index, err)

\* C7: the outcome of every finished call is the one its document alone
\* determines, and equals the outcome of the first call for the same video,
\* whatever calls came before.
C7_BuildsAreIsolated ==
    Finished =>
        /\ CurrentOutcome = ExpectedOutcome(fs[video])
        /\ CurrentOutcome = first[video]

\* VID02 built after a build of VID01 that failed on a malformed key, the two
\* documents being different
C7_Witness ==
    /\ pc = "returned"
    /\ video = "VID02"
    /\ DOMAIN result.index # {}
    /\ first["VID01"].done
    /\ first["VID01"].err = "ValueError"
    /\ Len(fs["VID01"].frames) = 2
    /\ ParseOK(fs["VID01"].frames[1].key)
    /\ fs["VID01"].frames[1].data # fs["VID02"].frames[1].data

AnyPathMissing == ~paths.yolo \/ ~paths.verb \/ ~paths.dataset

\* C8: with a path missing, main gets FileNotFoundError from ModelLoader and
\* no model is loaded, no evaluator created and no annotation file opened;
\* and annotations are read only after load_ground_truth has returned.
C8_PathsBeforeEverything ==
    /\ AnyPathMissing =>
          /\ mainPc \in {"start", "handled"}
          /\ mainPc = "handled" =>
                main_err = "FileNotFoundError" /\ raised_in = "setup_paths"
          /\ yolo_model = "none"
          /\ verb_model = "none"
          /\ ~evaluator
          /\ pc = "idle"
          /\ opens = 0
    /\ (reads > 0 \/ mainPc \in {"sample", "done"}) =>
          pc = "returned" /\ annotations.bound

\* main stopped by the dataset path alone
C8_Witness ==
    /\ mainPc = "handled"
    /\ raised_in = "setup_paths"
    /\ paths.yolo
    /\ paths.verb
    /\ ~paths.dataset

\* C9: a call on a document whose frames object is empty returns the empty index.
C9_EmptyFramesReturnEmptyIndex ==
    (Finished /\ fs[video] = JsonFile(<<>>)) =>
        pc = "returned" /\ annotations = Bound(EmptyIndex)

Occurrences(seq, x) == Cardinality({p \in 1..Len(seq) : seq[p] = x})

\* C10: after every iteration the three accumulators have one length, frame f
\* (done) holds as many entries as it had boxes, all under index f,
\* frame_indices is non-decreasing, and the function returns (None, None)
\* exactly when no frame had a box.
C10_AccumulatorsAligned ==
    /\ Len(all_features) = Len(all_labels)
    /\ Len(all_labels) = Len(frame_indices)
    /\ Len(detections) = frame_idx
    /\ \A f \in 0..(frame_idx - 1) :
          /\ Occurrences(frame_indices, f) = Len(detections[f + 1])
          /\ \A p \in 1..Len(frame_indices) :
                frame_indices[p] = f =>
                    all_features[p] = [frame |-> frame_files[f + 1]]
    /\ \A p \in 1..Len(frame_indices) : frame_indices[p] \in 0..(frame_idx - 1)
    /\ \A p, q \in 1..Len(frame_indices) :
          p <= q => frame_indices[p] <= frame_indices[q]
    /\ featPc = "done" =>
          (ret = "none" <=> \A f \in 1..Len(detections) : Len(detections[f]) = 0)

\* a run that returned arrays after a frame with two boxes and a frame with none
C10_Witness ==
    /\ featPc = "done"
    /\ ret = "arrays"
    /\ \E f \in 1..Len(detections) : Len(detections[f]) = 2
    /\ \E f \in 1..Len(detections) : Len(detections[f]) = 0
====
